---- MODULE Spec2Model ----
\* Model of the medicinal-plant catalogue: the CSV-to-SQLite import
\* (create_database.py, app.py:setup_database) and the queries of the
\* browse and search pages (app.py), with the file system state they act on.
EXTENDS Integers, Sequences, FiniteSets, TLC

\* ---------------------------------------------------------------- bounds
\* Largest number of data rows of a source file.
MaxRows == 2

\* ------------------------------------------------------------------ text
\* A text is a sequence of ASCII codes, so that comparison, case folding and
\* pattern matching are computed on characters as SQLite computes them.
s_empty == << >>
s_cold  == <<99, 111, 108, 100>>      \* "cold"
s_Cold  == <<67, 111, 108, 100>>      \* "Cold"
s_cxld  == <<99, 120, 108, 100>>      \* "cxld"
s_c_ld  == <<99, 95, 108, 100>>       \* "c_ld"
s_OL    == <<79, 76>>                 \* "OL"
s_NA    == <<78, 65>>                 \* "NA"
s_null  == <<110, 117, 108, 108>>     \* "null"
s_Rosa  == <<82, 111, 115, 97>>       \* "Rosa"
s_rosa  == <<114, 111, 115, 97>>      \* "rosa"
s_Ruta  == <<82, 117, 116, 97>>       \* "Ruta"
s_ta    == <<116, 97>>                \* "ta"
s_ro    == <<114, 111>>               \* "ro"
s_tea   == <<116, 101, 97>>           \* "tea"
s_Thea  == <<84, 104, 101, 97>>       \* "Thea"
s_zinc  == <<122, 105, 110, 99>>      \* "zinc"
s_in    == <<105, 110>>               \* "in"
s_db    == <<100, 98>>                \* "db"
s_leaf  == <<108, 101, 97, 102>>      \* "leaf"
s_boil  == <<98, 111, 105, 108>>      \* "boil"
s_AS    == <<65, 83>>                 \* "AS"
s_pr    == <<112, 114>>               \* "pr"
s_lr    == <<108, 114>>               \* "lr"

\* A value of a data frame cell or of a table column: SQL NULL (pandas NaN)
\* or a text.
Null == [null |-> TRUE, text |-> s_empty]
Text(s) == [null |-> FALSE, text |-> s]

\* ---------------------------------------------------------------- schema
\* The fixed column names both importers assign to the data frame.
SchemaColumns ==
  << "Name_of_Plant", "Scientific_Name", "Family", "Related_Database",
     "Therapeutic_Use", "Tissue_Part", "Preparation_Method",
     "NE_State_Availability", "Phytochemicals", "Phytochemical_Reference",
     "Literature_Reference" >>

NumColumns == Len(SchemaColumns)

ColumnIndex(name) == CHOOSE i \in 1..NumColumns : SchemaColumns[i] = name

\* ----------------------------------------------------------- source file
\* Header rows of source files: the original headings, the same headings with
\* Family and Scientific Name exchanged, and a file that lacks the last column.
HeaderOriginal ==
  << "Name of Plant", "Scientific Name", "Family", "Related Database",
     "Therapeutic Use", "Tissue/Part", "Preparation Method",
     "NE State Availability", "Phytochemical(s)", "Phytochemical Reference",
     "Literature Reference" >>

HeaderReordered ==
  [HeaderOriginal EXCEPT ![2] = "Family", ![3] = "Scientific Name"]

HeaderShort == SubSeq(HeaderOriginal, 1, NumColumns - 1)

Headers == {HeaderOriginal, HeaderReordered, HeaderShort}

\* A data row: the five cells the queries read, the other six fixed.
Row(name, sci, fam, use, phy) ==
  << name, sci, fam, s_db, use, s_leaf, s_boil, s_AS, phy, s_pr, s_lr >>

SampleRows ==
  { Row(s_tea,  s_Thea, s_Ruta, s_cold, s_zinc),
    Row(s_Rosa, s_rosa, s_Rosa, s_Cold, s_NA),
    Row(s_Thea, s_Ruta, s_rosa, s_cxld, s_in),
    Row(s_Ruta, s_tea,  s_empty, s_null, s_zinc) }

RECURSIVE SeqsUpTo(_, _)
SeqsUpTo(S, n) ==
  IF n = 0 THEN {<< >>}
  ELSE LET shorter == SeqsUpTo(S, n - 1)
       IN  shorter \cup {Append(q, x) : q \in {r \in shorter : Len(r) = n - 1}, x \in S}

\* The file at csv_path: missing, or a header and data rows of the header's width.
NoCsv == [exists |-> FALSE, header |-> << >>, rows |-> << >>]

CsvFile(h, rs) ==
  [exists |-> TRUE, header |-> h,
   rows |-> [i \in 1..Len(rs) |-> SubSeq(rs[i], 1, Len(h))]]

CsvFiles ==
  {NoCsv} \cup {CsvFile(h, rs) : h \in Headers, rs \in SeqsUpTo(SampleRows, MaxRows)}

\* ------------------------------------------------------------ pd.read_csv
\* Cell texts pandas reads as a missing value (the default na_values that can
\* be written with the characters used here).
NaTokens ==
  { s_empty, s_NA, s_null,
    <<78, 85, 76, 76>>,        \* "NULL"
    <<78, 97, 78>>,            \* "NaN"
    <<110, 97, 110>>,          \* "nan"
    <<78, 47, 65>>,            \* "N/A"
    <<110, 47, 97>> }          \* "n/a"

\* The cells modelled hold no numbers, so every column is read as text.
ParseCell(cell) == IF cell \in NaTokens THEN Null ELSE Text(cell)

\* pd.read_csv(path): the first row names the columns, each later row is
\* one record of parsed cells.
ReadCsv(file) ==
  [columns |-> file.header,
   rows |-> [i \in 1..Len(file.rows) |->
               [j \in 1..Len(file.rows[i]) |-> ParseCell(file.rows[i][j])]]]

\* df.columns = [...]: raises ValueError unless the frame has as many columns
\* as names are assigned.
RenameRaises(df) == Len(df.columns) # NumColumns

\* The frame after the assignment: the value at position i is labelled with
\* the i-th schema name, whatever the header said.
RenameColumns(df) ==
  [columns |-> SchemaColumns,
   rows |-> [i \in 1..Len(df.rows) |->
               [c \in {SchemaColumns[k] : k \in 1..NumColumns} |->
                  df.rows[i][ColumnIndex(c)]]]]

\* ------------------------------------------------------------------ store
\* The file at db_path: missing, or an SQLite database with or without the
\* plants table.
NoDb == [kind |-> "absent", hasTable |-> FALSE, rows |-> << >>]
EmptyDb == [kind |-> "sqlite", hasTable |-> FALSE, rows |-> << >>]
PlantsDb(rows) == [kind |-> "sqlite", hasTable |-> TRUE, rows |-> rows]

\* os.path.exists(DB_PATH)
DbExists(store) == store.kind # "absent"

\* sqlite3.connect(path) creates the database file when there is none.
Connect(store) == IF DbExists(store) THEN store ELSE EmptyDb

\* Variant: if_exists='append', the frame is added to the rows already stored.
ToSqlAppend(df, store) == PlantsDb(store.rows \o df.rows)

\* df.to_sql('plants', conn, if_exists='replace', index=False): the table is
\* dropped if present and created again from the frame.
ToSql(df, store) == PlantsDb(df.rows)

\* --------------------------------------------------------------- importers
\* What an operation leaves behind: the store, how it ended, the messages it
\* emitted and the connections it opened and did not close.
Outcome(store, status, msgs, unclosed) ==
  [db |-> store, status |-> status, msgs |-> msgs, unclosed |-> unclosed]

\* Variant: the missing source file is reported but the render is not stopped.
SetupDatabaseNoStop(file, store, ioOk) ==
  IF DbExists(store) THEN Outcome(store, "returned", {}, 0)
  ELSE IF ~file.exists
    THEN Outcome(store, "returned", {"toast_creating", "error_csv_not_found"}, 0)
  ELSE IF RenameRaises(ReadCsv(file))
    THEN Outcome(store, "halted", {"toast_creating", "error_setup"}, 0)
  ELSE IF ~ioOk
    THEN Outcome(Connect(store), "halted", {"toast_creating", "error_setup"}, 1)
  ELSE Outcome(ToSql(RenameColumns(ReadCsv(file)), Connect(store)), "returned",
               {"toast_creating", "toast_created"}, 0)

\* app.py setup_database. ioOk: whether the write of to_sql goes through
\* (it raises sqlite3.OperationalError when the database is locked or the
\* disk is full). st.stop() raises StopException, a BaseException, so the
\* except clause does not catch it and the render ends.
SetupDatabase(file, store, ioOk) ==
  IF DbExists(store) THEN Outcome(store, "returned", {}, 0)
  ELSE IF ~file.exists
    THEN Outcome(store, "halted", {"toast_creating", "error_csv_not_found"}, 0)
  ELSE IF RenameRaises(ReadCsv(file))
    THEN Outcome(store, "halted", {"toast_creating", "error_setup"}, 0)
  ELSE IF ~ioOk
    THEN Outcome(Connect(store), "halted", {"toast_creating", "error_setup"}, 1)
  ELSE Outcome(ToSql(RenameColumns(ReadCsv(file)), Connect(store)), "returned",
               {"toast_creating", "toast_created"}, 0)

\* create_database.py create_database. The column assignment stands outside
\* every try block, so its ValueError leaves the function as an exception.
CreateDatabase(file, store, ioOk) ==
  IF ~file.exists
    THEN Outcome(store, "returned", {"print_not_found"}, 0)
  ELSE IF RenameRaises(ReadCsv(file))
    THEN Outcome(store, "raised", {"print_csv_read"}, 0)
  ELSE IF ~ioOk
    THEN Outcome(Connect(store), "returned",
                 {"print_csv_read", "print_db_created", "print_error"}, 1)
  ELSE Outcome(ToSql(RenameColumns(ReadCsv(file)), Connect(store)), "returned",
               {"print_csv_read", "print_db_created", "print_imported",
                "print_closed"}, 0)

\* ----------------------------------------------------------------- SQLite
\* Variant: a missing table reads as an empty one.
ReadSqlNeverRaises(store) == FALSE

\* The table behind a query: pd.read_sql raises when the connection's file
\* has no plants table ("no such table: plants").
ReadSqlRaises(store) == ~(store.kind = "sqlite" /\ store.hasTable)

ReadSqlRows(store) == store.rows

\* SQLite's LIKE folds the case of ASCII letters before comparing.
Upper(c) == IF c >= 97 /\ c <= 122 THEN c - 32 ELSE c

Tail2(s) == SubSeq(s, 2, Len(s))

\* x LIKE pat without an ESCAPE: "%" (37) matches any run of characters,
\* "_" (95) any one character, every other character itself up to case.
RECURSIVE Like(_, _)
Like(pat, txt) ==
  IF pat = << >> THEN txt = << >>
  ELSE IF pat[1] = 37
    THEN Like(Tail2(pat), txt) \/ (txt # << >> /\ Like(pat, Tail2(txt)))
  ELSE IF txt = << >> THEN FALSE
  ELSE IF pat[1] = 95 THEN Like(Tail2(pat), Tail2(txt))
  ELSE Upper(pat[1]) = Upper(txt[1]) /\ Like(Tail2(pat), Tail2(txt))

\* A NULL operand makes LIKE NULL, which a WHERE clause treats as false.
LikeValue(pat, v) == ~v.null /\ Like(pat, v.text)

\* The BINARY collation: texts are compared byte by byte (memcmp).
RECURSIVE TextLess(_, _)
TextLess(a, b) ==
  IF b = << >> THEN FALSE
  ELSE IF a = << >> THEN TRUE
  ELSE IF a[1] # b[1] THEN a[1] < b[1]
  ELSE TextLess(Tail2(a), Tail2(b))

\* ORDER BY sorts NULL before every text.
ValueLeq(v, w) ==
  IF v.null THEN TRUE
  ELSE IF w.null THEN FALSE
  ELSE v.text = w.text \/ TextLess(v.text, w.text)

\* DISTINCT keeps one row of each value (NULLs count as one value).
RECURSIVE Distinct(_)
Distinct(vals) ==
  IF vals = << >> THEN << >>
  ELSE LET rest == Distinct(SubSeq(vals, 1, Len(vals) - 1))
           v == vals[Len(vals)]
       IN  IF \E i \in 1..Len(rest) : rest[i] = v THEN rest ELSE Append(rest, v)

RECURSIVE Insert(_, _)
Insert(sorted, v) ==
  IF sorted = << >> THEN <<v>>
  ELSE IF ValueLeq(v, sorted[1]) THEN <<v>> \o sorted
  ELSE <<sorted[1]>> \o Insert(Tail2(sorted), v)

\* ORDER BY <column>, ascending.
RECURSIVE OrderBy(_)
OrderBy(vals) ==
  IF vals = << >> THEN << >>
  ELSE Insert(OrderBy(SubSeq(vals, 1, Len(vals) - 1)), vals[Len(vals)])

\* Variant: SELECT DISTINCT Family FROM plants, without the ORDER BY.
SelectFamilyUnordered(rows) ==
  Distinct([i \in 1..Len(rows) |-> rows[i].Family])

\* SELECT DISTINCT Family FROM plants ORDER BY Family
SelectDistinctFamily(rows) ==
  OrderBy(Distinct([i \in 1..Len(rows) |-> rows[i].Family]))

\* ------------------------------------------------------------ browse page
\* What a page leaves behind: as for the importers, with the family list of
\* the browse page and the rows of the search page.
PageOutcome(store, status, msgs, unclosed, families, results) ==
  [db |-> store, status |-> status, msgs |-> msgs, unclosed |-> unclosed,
   families |-> families, results |-> results]

\* app.py browse_page: one expander per family; a failing query is reported
\* with st.error and the connection is closed after the except clause.
BrowsePage(store) ==
  IF ReadSqlRaises(Connect(store))
    THEN PageOutcome(Connect(store), "error", {"error_fetching"}, 0, << >>, << >>)
  ELSE PageOutcome(Connect(store), "ok", {"expanders"}, 0,
                   SelectDistinctFamily(ReadSqlRows(Connect(store))), << >>)

\* ------------------------------------------------------------ search page
\* The text inputs of the search form.
NoQuery == [name |-> s_empty, use |-> s_empty, family |-> s_empty, phyto |-> s_empty]

\* Variant: f'{q}%', the leading wildcard forgotten.
WrapPrefix(q) == q \o <<37>>

\* f'%{q}%'
Wrap(q) == <<37>> \o q \o <<37>>

\* The WHERE clause search_page builds: a conjunction of clauses, one per
\* non-empty input, each a disjunction of "<column> LIKE ?" with its parameter.
Clause(columns, q) == [columns |-> columns, param |-> Wrap(q)]

BuildQuery(q) ==
     (IF q.name # s_empty
        THEN <<Clause({"Name_of_Plant", "Scientific_Name"}, q.name)>> ELSE << >>)
  \o (IF q.use # s_empty THEN <<Clause({"Therapeutic_Use"}, q.use)>> ELSE << >>)
  \o (IF q.family # s_empty THEN <<Clause({"Family"}, q.family)>> ELSE << >>)
  \o (IF q.phyto # s_empty THEN <<Clause({"Phytochemicals"}, q.phyto)>> ELSE << >>)

\* Variant: the clauses joined with OR.
WhereAny(row, query) ==
  \E k \in 1..Len(query) :
    \E c \in query[k].columns : LikeValue(query[k].param, row[c])

\* WHERE 1=1 AND (...) AND ...
Where(row, query) ==
  \A k \in 1..Len(query) :
    \E c \in query[k].columns : LikeValue(query[k].param, row[c])

\* The positions of the rows SELECT * FROM plants WHERE ... returns.
SelectWhere(rows, query) == {i \in 1..Len(rows) : Where(rows[i], query)}

\* The rows at the given positions, in table order.
RECURSIVE RowsAt(_, _)
RowsAt(rows, idx) ==
  IF rows = << >> THEN << >>
  ELSE LET n == Len(rows)
           before == RowsAt(SubSeq(rows, 1, n - 1), idx)
       IN  IF n \in idx THEN Append(before, rows[n]) ELSE before

\* app.py search_page: nothing happens until the form is submitted.
SearchPage(store, q, submitted) ==
  IF ~submitted THEN PageOutcome(store, "ok", {}, 0, << >>, << >>)
  ELSE IF ReadSqlRaises(Connect(store))
    THEN PageOutcome(Connect(store), "error", {"error_search"}, 0, << >>, << >>)
  ELSE PageOutcome(Connect(store), "ok", {"found_results"}, 0, << >>,
                   RowsAt(ReadSqlRows(Connect(store)),
                          SelectWhere(ReadSqlRows(Connect(store)), BuildQuery(q))))

\* ------------------------------------------------------------------ state
\* csv: the file at CSV_PATH.  db: the file at DB_PATH.
\* pc: where a render of main stands ("idle": no render under way, "page":
\*     setup_database has returned and the selected page is about to run).
\* last: the operation that ran last, the store it found (pre), its inputs
\*     and what it left behind.
VARIABLES csv, db, pc, last

vars == <<csv, db, pc, last>>

\* The texts typed into the search form.
Queries ==
  [name : {s_empty, s_ta}, use : {s_empty, s_cold, s_c_ld, s_OL},
   family : {s_empty, s_ro}, phyto : {s_empty, s_in}]

Record(op, caller, pre, q, submitted, o) ==
  [op |-> op, caller |-> caller, pre |-> pre, query |-> q,
   submitted |-> submitted, status |-> o.status, msgs |-> o.msgs,
   unclosed |-> o.unclosed, families |-> o.families, results |-> o.results]

\* The importers leave no query result.
NoPage(o) ==
  PageOutcome(o.db, o.status, o.msgs, o.unclosed, << >>, << >>)

\* The stores a run can find: none, a database file without the table (as a
\* failed import leaves it), or the table imported from the source file.
InitialStores(file) ==
  {NoDb, EmptyDb} \cup
  (IF file.exists /\ ~RenameRaises(ReadCsv(file))
     THEN {ToSql(RenameColumns(ReadCsv(file)), EmptyDb)} ELSE {})

Init ==
  /\ csv \in CsvFiles
  /\ db \in InitialStores(csv)
  /\ pc = "idle"
  /\ last = Record("none", "none", db, NoQuery, FALSE,
                   PageOutcome(db, "ok", {}, 0, << >>, << >>))

\* python create_database.py
RunCreateDatabase ==
  /\ pc = "idle"
  /\ \E ioOk \in BOOLEAN :
       LET o == CreateDatabase(csv, db, ioOk)
       IN  /\ db' = o.db
           /\ last' = Record("create_database", "script", db, NoQuery, FALSE, NoPage(o))
  /\ UNCHANGED <<csv, pc>>

\* main, up to the return of setup_database; a halted render ends there.
MainSetup ==
  /\ pc = "idle"
  /\ \E ioOk \in BOOLEAN :
       LET o == SetupDatabase(csv, db, ioOk)
       IN  /\ db' = o.db
           /\ pc' = IF o.status = "returned" THEN "page" ELSE "idle"
           /\ last' = Record("setup_database", "main", db, NoQuery, FALSE, NoPage(o))
  /\ UNCHANGED csv

\* main, page == "Browse"
MainBrowse ==
  /\ pc = "page"
  /\ LET o == BrowsePage(db)
     IN  /\ db' = o.db
         /\ last' = Record("browse_page", "main", db, NoQuery, FALSE, o)
  /\ pc' = "idle"
  /\ UNCHANGED csv

\* main, page == "Advanced Search", the form submitted
MainSearch ==
  /\ pc = "page"
  /\ \E q \in Queries :
       LET o == SearchPage(db, q, TRUE)
       IN  /\ db' = o.db
           /\ last' = Record("search_page", "main", db, q, TRUE, o)
  /\ pc' = "idle"
  /\ UNCHANGED csv

\* main, page == "Advanced Search", the form not submitted
MainSearchForm ==
  /\ pc = "page"
  /\ LET o == SearchPage(db, NoQuery, FALSE)
     IN  /\ db' = o.db
         /\ last' = Record("search_page", "main", db, NoQuery, FALSE, o)
  /\ pc' = "idle"
  /\ UNCHANGED csv

\* main, page in Home, Contact, Download: the store is not touched.
MainOtherPage ==
  /\ pc = "page"
  /\ last' = Record("other_page", "main", db, NoQuery, FALSE,
                    PageOutcome(db, "ok", {}, 0, << >>, << >>))
  /\ pc' = "idle"
  /\ UNCHANGED <<csv, db>>

\* browse_page called on its own, outside a render of main
CallBrowse ==
  /\ pc = "idle"
  /\ LET o == BrowsePage(db)
     IN  /\ db' = o.db
         /\ last' = Record("browse_page", "direct", db, NoQuery, FALSE, o)
  /\ UNCHANGED <<csv, pc>>

\* search_page called on its own, the form submitted
CallSearch ==
  /\ pc = "idle"
  /\ \E q \in Queries :
       LET o == SearchPage(db, q, TRUE)
       IN  /\ db' = o.db
           /\ last' = Record("search_page", "direct", db, q, TRUE, o)
  /\ UNCHANGED <<csv, pc>>

Next ==
  \/ RunCreateDatabase
  \/ MainSetup
  \/ MainBrowse
  \/ MainSearch
  \/ MainSearchForm
  \/ MainOtherPage
  \/ CallBrowse
  \/ CallSearch

Spec == Init /\ [][Next]_vars

\* ----------------------------------------------------------------- claims
IsImport == last.op \in {"create_database", "setup_database"}

ImportSucceeded ==
  IsImport /\ (last.msgs \cap {"print_imported", "toast_created"}) # {}

IsQuery ==
  \/ last.op = "browse_page"
  \/ last.op = "search_page" /\ last.submitted

\* C1: after a successful import of a well-formed source file the plants
\* table holds as many records as the file has data rows, and the i-th schema
\* field of record r is the text at row r, position i of the file.
C1_ImportFieldForField ==
  ImportSucceeded =>
    /\ db.hasTable
    /\ Len(db.rows) = Len(csv.rows)
    /\ \A r \in 1..Len(csv.rows) : \A i \in 1..NumColumns :
         db.rows[r][SchemaColumns[i]] = Text(csv.rows[r][i])

\* C2: imports never duplicate records: setup_database leaves an existing
\* store as it found it, and after create_database, as after any sequence of
\* imports, the plants table holds exactly the N records of the source.
C2_ReimportNeverDuplicates ==
  /\ (last.op = "setup_database" /\ DbExists(last.pre)) => db = last.pre
  /\ (last.op = "create_database" /\ ImportSucceeded) =>
       db.hasTable /\ Len(db.rows) = Len(csv.rows)
  /\ db.hasTable => Len(db.rows) = Len(csv.rows)

C2_Witness ==
  /\ last.op = "create_database" /\ ImportSucceeded
  /\ last.pre.hasTable /\ Len(last.pre.rows) >= 1
  /\ Len(db.rows) = Len(last.pre.rows)

\* A search with the Therapeutic_Use input alone.
OnlyUse ==
  /\ last.op = "search_page" /\ last.submitted /\ last.status = "ok"
  /\ last.query.use # s_empty
  /\ last.query.name = s_empty /\ last.query.family = s_empty
  /\ last.query.phyto = s_empty

Contains(txt, p) ==
  \E k \in 0..(Len(txt) - Len(p)) : SubSeq(txt, k + 1, k + Len(p)) = p

FoldCase(txt) ==
  [i \in 1..Len(txt) |-> IF txt[i] \in 97..122 THEN txt[i] - 32 ELSE txt[i]]

HasWildcard(p) == \E i \in 1..Len(p) : p[i] \in {37, 95}

\* C3 as stated: a search by Therapeutic_Use alone returns exactly the
\* records whose Therapeutic_Use contains the pattern as a case-sensitive
\* substring.
C3_CaseSensitiveSubstring ==
  OnlyUse =>
    last.results =
      RowsAt(db.rows, {i \in 1..Len(db.rows) :
                         /\ ~db.rows[i].Therapeutic_Use.null
                         /\ Contains(db.rows[i].Therapeutic_Use.text, last.query.use)})

\* C3 as amended: for a pattern without "%" and "_", a search by
\* Therapeutic_Use alone returns exactly the records whose Therapeutic_Use is
\* not NULL and contains the pattern when the case of ASCII letters is ignored.
C3_CaseInsensitiveSubstring ==
  (OnlyUse /\ ~HasWildcard(last.query.use)) =>
    last.results =
      RowsAt(db.rows, {i \in 1..Len(db.rows) :
                         /\ ~db.rows[i].Therapeutic_Use.null
                         /\ Contains(FoldCase(db.rows[i].Therapeutic_Use.text),
                                     FoldCase(last.query.use))})

C3_Witness ==
  /\ OnlyUse /\ last.query.use = s_OL
  /\ Len(last.results) >= 1
  /\ Len(last.results) < Len(db.rows)

\* The inputs of a query that are filled in, and the query with one of them alone.
Provided(q) == {f \in {"name", "use", "family", "phyto"} : q[f] # s_empty}

Alone(q, f) == [NoQuery EXCEPT ![f] = q[f]]

\* C4: a search returns the records that every provided filter, taken alone,
\* returns; an empty input constrains nothing, and with no input at all every
\* record of the store is returned.
C4_FiltersIntersect ==
  (last.op = "search_page" /\ last.submitted /\ last.status = "ok") =>
    /\ last.results =
         RowsAt(db.rows,
                {i \in 1..Len(db.rows) :
                   \A f \in Provided(last.query) :
                     i \in SelectWhere(db.rows, BuildQuery(Alone(last.query, f)))})
    /\ Provided(last.query) = {} => last.results = db.rows

C4_Witness ==
  /\ last.op = "search_page" /\ last.submitted /\ last.status = "ok"
  /\ Cardinality(Provided(last.query)) >= 2
  /\ Len(last.results) = 1
  /\ \E f \in Provided(last.query) :
       Cardinality(SelectWhere(db.rows, BuildQuery(Alone(last.query, f)))) = 2

\* Byte-wise lexical order of two texts.
LexBefore(a, b) ==
  \E k \in 0..Len(a) :
    /\ k <= Len(b)
    /\ SubSeq(a, 1, k) = SubSeq(b, 1, k)
    /\ \/ k = Len(a) /\ k < Len(b)
       \/ k < Len(a) /\ k < Len(b) /\ a[k + 1] < b[k + 1]

\* C5: the family list of the browse page holds every Family value of the
\* store exactly once, nothing else, and is in ascending lexical order (a
\* NULL Family, if any, first).
C5_DistinctFamiliesSorted ==
  (last.op = "browse_page" /\ last.status = "ok") =>
    LET f == last.families
    IN  /\ {f[i] : i \in 1..Len(f)} = {db.rows[r].Family : r \in 1..Len(db.rows)}
        /\ \A i, j \in 1..Len(f) : i < j =>
             /\ f[i] # f[j]
             /\ ~f[j].null
             /\ f[i].null \/ LexBefore(f[i].text, f[j].text)

C5_Witness ==
  /\ last.op = "browse_page" /\ last.status = "ok"
  /\ Len(db.rows) = 2 /\ Len(last.families) = 2
  /\ last.families[1] = db.rows[2].Family
  /\ ~last.families[1].null

NotInitialized(store) == ~DbExists(store) \/ ~store.hasTable

\* C6: a query on a store that is not initialized (no file, or no plants
\* table) ends with a reported error and reports no result set.
C6_UninitializedQueryFails ==
  (IsQuery /\ NotInitialized(last.pre)) =>
    /\ last.status = "error"
    /\ (last.msgs \cap {"error_fetching", "error_search"}) # {}
    /\ (last.msgs \cap {"found_results", "expanders"}) = {}
    /\ last.results = << >> /\ last.families = << >>

C6_Witness ==
  /\ IsQuery /\ last.caller = "main" /\ last.op = "search_page"
  /\ NotInitialized(last.pre) /\ last.status = "error"

\* C7: a query leaves the existence and the contents of the store as it
\* found them.
C7_QueriesReadOnly == IsQuery => db = last.pre

\* C8: an import with the source file missing (for setup_database: and no
\* store file) reports the error, emits no success message, creates and
\* changes no store, and in main the render ends before any page runs.
C8_MissingSourceHalts ==
  /\ (last.op = "setup_database" /\ ~csv.exists /\ ~DbExists(last.pre)) =>
       /\ last.status = "halted" /\ pc = "idle"
       /\ "error_csv_not_found" \in last.msgs
       /\ "toast_created" \notin last.msgs
       /\ db = last.pre /\ ~DbExists(db)
  /\ (last.op = "create_database" /\ ~csv.exists) =>
       /\ "print_not_found" \in last.msgs
       /\ (last.msgs \cap {"print_db_created", "print_imported"}) = {}
       /\ db = last.pre

C8_Witness ==
  last.op = "setup_database" /\ ~csv.exists /\ ~DbExists(last.pre)

\* C9: when main reaches a page, setup_database has returned normally and the
\* store holds the plants table with the records of the source file.
C9_PageFindsPopulatedStore ==
  pc = "page" =>
    /\ last.op = "setup_database" /\ last.status = "returned"
    /\ csv.exists /\ ~RenameRaises(ReadCsv(csv))
    /\ db = PlantsDb(RenameColumns(ReadCsv(csv)).rows)

\* C10: every operation has closed the connections it opened when it ends.
C10_ConnectionsClosed == last.unclosed = 0

====
